---- MODULE Spec2Model ----
(***************************************************************************)
(* Model of load_env.py, the PlatformIO extra script that reads a .env     *)
(* file and turns its entries into -D<KEY>_VALUE=<literal> build flags.    *)
(*                                                                         *)
(* Text is modelled as a sequence of one-character strings, so that        *)
(* strip, partition, replace, lower, isdigit and float() are computed      *)
(* character by character, as the Python runtime computes them.            *)
(***************************************************************************)
EXTENDS Integers, Sequences, FiniteSets, TLC

VARIABLES
    file_exists,    \* os.path.exists(env_file)
    content,        \* the text of the .env file (<<>> when it does not exist)
    BUILD_FLAGS,    \* the build environment's flag collection
    flags_before,   \* history: BUILD_FLAGS when the script started
    append_calls,   \* history: number of env.Append calls made so far
    pc,             \* position of the script
    line_num,       \* enumerate(f, 1) counter of parse_env_file
    config,         \* the dict, as its insertion-ordered sequence of <<key, value>>
    out,            \* lines printed to the build log, in order
    new_flags,      \* the list of flags being built
    item,           \* number of config.items() already rendered
    key,            \* loop variable / argument key
    value,          \* loop variable / argument value
    flag            \* result of the last get_build_flag call

vars == <<file_exists, content, BUILD_FLAGS, flags_before, append_calls, pc,
          line_num, config, out, new_flags, item, key, value, flag>>

----------------------------------------------------------------------------
(* Bounds *)

MaxValueLen == 3
MaxFileLen == 5

----------------------------------------------------------------------------
(* Characters and the str methods the script uses *)

Digits == {"0", "1", "2", "3", "4", "5", "6", "7", "8", "9"}

UpperLetters == <<"A","B","C","D","E","F","G","H","I","J","K","L","M",
                  "N","O","P","Q","R","S","T","U","V","W","X","Y","Z">>

LowerLetters == <<"a","b","c","d","e","f","g","h","i","j","k","l","m",
                  "n","o","p","q","r","s","t","u","v","w","x","y","z">>

IndexIn(seq, c) == CHOOSE i \in 1..Len(seq) : seq[i] = c

Range(seq) == {seq[i] : i \in 1..Len(seq)}

Whitespace == {" ", "\t", "\n", "\r"}

lower_char(c) == IF c \in Range(UpperLetters)
                 THEN LowerLetters[IndexIn(UpperLetters, c)] ELSE c

upper_char(c) == IF c \in Range(LowerLetters)
                 THEN UpperLetters[IndexIn(LowerLetters, c)] ELSE c

lower(s) == [i \in 1..Len(s) |-> lower_char(s[i])]

upper(s) == [i \in 1..Len(s) |-> upper_char(s[i])]

isdigit(s) == Len(s) > 0 /\ \A i \in 1..Len(s) : s[i] \in Digits

startswith(s, p) == Len(s) >= Len(p) /\ SubSeq(s, 1, Len(p)) = p

contains(s, p) == \E i \in 1..(Len(s) - Len(p) + 1) : SubSeq(s, i, i + Len(p) - 1) = p

strip(s) ==
    LET keep == {i \in 1..Len(s) : s[i] \notin Whitespace}
    IN  IF keep = {} THEN <<>>
        ELSE SubSeq(s, CHOOSE i \in keep : \A j \in keep : i <= j,
                       CHOOSE i \in keep : \A j \in keep : i >= j)

\* str.replace for a one-character pattern: left to right, every occurrence
RECURSIVE replace(_, _, _)
replace(s, c, rep) ==
    IF s = <<>> THEN <<>>
    ELSE (IF Head(s) = c THEN rep ELSE <<Head(s)>>) \o replace(Tail(s), c, rep)

\* str.partition(c): <<before, after>> of the first occurrence of c
partition(s, c) ==
    LET hits == {i \in 1..Len(s) : s[i] = c}
        p == CHOOSE i \in hits : \A j \in hits : i <= j
    IN  <<SubSeq(s, 1, p - 1), SubSeq(s, p + 1, Len(s))>>

----------------------------------------------------------------------------
(* float(value): succeeds or raises ValueError *)

\* underscores are accepted only between two digits
underscores_ok(s) ==
    \A i \in 1..Len(s) :
        s[i] = "_" => /\ i > 1 /\ s[i - 1] \in Digits
                      /\ i < Len(s) /\ s[i + 1] \in Digits

drop_underscores(s) == replace(s, "_", <<>>)

unsigned(s) == IF s # <<>> /\ Head(s) \in {"+", "-"} THEN Tail(s) ELSE s

is_mantissa(m) ==
    /\ \A i \in 1..Len(m) : m[i] \in Digits \cup {"."}
    /\ Cardinality({i \in 1..Len(m) : m[i] = "."}) <= 1
    /\ \E i \in 1..Len(m) : m[i] \in Digits

is_exponent(x) ==
    /\ Len(x) >= 2
    /\ x[1] \in {"e", "E"}
    /\ isdigit(unsigned(Tail(x)))

float_parses(s) ==
    /\ underscores_ok(s)
    /\ LET r == unsigned(strip(drop_underscores(s)))
       IN  \/ lower(r) \in {<<"i","n","f">>, <<"n","a","n">>,
                            <<"i","n","f","i","n","i","t","y">>}
           \/ \E k \in 0..Len(r) :
                 /\ is_mantissa(SubSeq(r, 1, k))
                 /\ k = Len(r) \/ is_exponent(SubSeq(r, k + 1, Len(r)))

\* mutant: the check for '.', 'e' or 'E' is left out
is_float_any(v) == float_parses(v)

is_float(v) ==
    /\ float_parses(v)
    /\ "." \in Range(v) \/ "e" \in Range(lower(v))

----------------------------------------------------------------------------
(* get_build_flag *)

VALUE_SUFFIX == <<"_", "V", "A", "L", "U", "E">>

macro_name(k) == k \o VALUE_SUFFIX

define(k) == <<"-", "D">> \o macro_name(k) \o <<"=">>

TrueText == <<"t", "r", "u", "e">>
FalseText == <<"f", "a", "l", "s", "e">>

is_bool(v) == lower(v) \in {TrueText, FalseText}

is_int(v) == isdigit(v) \/ (Len(v) > 1 /\ startswith(v, <<"-">>) /\ isdigit(Tail(v)))

\* mutant: the backslashes are escaped last instead of first
escape_backslash_last(v) ==
    replace(replace(replace(replace(v,
        "\"", <<"\\", "\\", "\\", "\"">>),
        "'", <<"\\", "'">>),
        " ", <<"\\", " ">>),
        "\\", <<"\\", "\\">>)

escape(v) ==
    replace(replace(replace(replace(v,
        "\\", <<"\\", "\\">>),
        "\"", <<"\\", "\\", "\\", "\"">>),
        "'", <<"\\", "'">>),
        " ", <<"\\", " ">>)

get_build_flag(k, v) ==
    IF is_bool(v) THEN define(k) \o lower(v)
    ELSE IF is_int(v) THEN define(k) \o v
    ELSE IF is_float(v) THEN define(k) \o v
    ELSE define(k) \o <<"\\", "\"">> \o escape(v) \o <<"\\", "\"">>

----------------------------------------------------------------------------
(* The build log: every print() call is recorded as its f-string template   *)
(* and the texts interpolated into it, in order.                            *)

DigitChars == <<"0", "1", "2", "3", "4", "5", "6", "7", "8", "9">>

\* str(n) for a non-negative integer
RECURSIVE decimal(_)
decimal(n) ==
    IF n < 10 THEN <<DigitChars[n + 1]>>
    ELSE decimal(n \div 10) \o <<DigitChars[(n % 10) + 1]>>

PROJECT_DIR == <<"/", "p">>

env_file == PROJECT_DIR \o <<"/", ".", "e", "n", "v">>

WarningLine(k, n) ==
    [fmt |-> "  Warning: Skipping invalid key '{key}' on line {line_num}",
     args |-> <<k, decimal(n)>>]

HeaderLine == [fmt |-> "Loading configuration from {env_file}", args |-> <<env_file>>]

NoFileLine ==
    [fmt |-> "No .env file found at {env_file}. Using default values from config.cpp or build_flags in platformio.ini.",
     args |-> <<env_file>>]

MaskedLine(k) == [fmt |-> "  {key}: ****", args |-> <<k>>]

ValueLine(k, v) == [fmt |-> "  {key}: {value}", args |-> <<k, v>>]

----------------------------------------------------------------------------
(* parse_env_file *)

\* iterating the open file: each line keeps its newline, the last may lack one
RECURSIVE readlines(_)
readlines(s) ==
    IF s = <<>> THEN <<>>
    ELSE IF "\n" \in Range(s)
         THEN LET p == partition(s, "\n")
              IN  <<p[1] \o <<"\n">>>> \o readlines(p[2])
         ELSE <<s>>

\* KEY_PATTERN = ^[A-Za-z_][A-Za-z0-9_]*$, matched against a stripped key
KEY_PATTERN(k) ==
    LET first == Range(UpperLetters) \cup Range(LowerLetters) \cup {"_"}
    IN  /\ k # <<>>
        /\ k[1] \in first
        /\ \A i \in 2..Len(k) : k[i] \in first \cup Digits

\* mutant: an existing key is removed and added again at the end
dict_set_reappend(d, k, v) ==
    Append(SelectSeq(d, LAMBDA e : e[1] # k), <<k, v>>)

\* config[k] = v on an insertion-ordered dict
dict_set(d, k, v) ==
    IF \E i \in 1..Len(d) : d[i][1] = k
    THEN [i \in 1..Len(d) |-> IF d[i][1] = k THEN <<k, v>> ELSE d[i]]
    ELSE Append(d, <<k, v>>)

f_lines == readlines(content)

\* the stripped text of the line the loop is about to handle
next_line == strip(f_lines[line_num + 1])

line_key(l) == strip(partition(l, "=")[1])

\* mutant: the line is split at its last '=' (rpartition)
line_value_last(l) ==
    LET hits == {i \in 1..Len(l) : l[i] = "="}
    IN  strip(SubSeq(l, (CHOOSE i \in hits : \A j \in hits : i >= j) + 1, Len(l)))

line_value(l) == strip(partition(l, "=")[2])

InLoop == pc = "parse" /\ file_exists /\ line_num < Len(f_lines)

\* line 29-30: the file does not exist
ParseMissing ==
    /\ pc = "parse" /\ ~file_exists
    /\ pc' = "loaded"
    /\ UNCHANGED <<file_exists, content, BUILD_FLAGS, flags_before, append_calls,
                   line_num, config, out, new_flags, item, key, value, flag>>

\* line 36-37: empty line or comment
ParseSkip ==
    /\ InLoop
    /\ next_line = <<>> \/ startswith(next_line, <<"#">>)
    /\ line_num' = line_num + 1
    /\ UNCHANGED <<file_exists, content, BUILD_FLAGS, flags_before, append_calls,
                   pc, config, out, new_flags, item, key, value, flag>>

\* line 39 false, or line 43 false: nothing happens
ParseIgnore ==
    /\ InLoop
    /\ ~(next_line = <<>> \/ startswith(next_line, <<"#">>))
    /\ \/ "=" \notin Range(next_line)
       \/ "=" \in Range(next_line) /\ line_key(next_line) = <<>>
    /\ line_num' = line_num + 1
    /\ UNCHANGED <<file_exists, content, BUILD_FLAGS, flags_before, append_calls,
                   pc, config, out, new_flags, item, key, value, flag>>

\* mutant: an invalid key ends the loop (break instead of continue)
ParseWarn_break ==
    /\ InLoop
    /\ ~(next_line = <<>> \/ startswith(next_line, <<"#">>))
    /\ "=" \in Range(next_line)
    /\ line_key(next_line) # <<>>
    /\ ~KEY_PATTERN(line_key(next_line))
    /\ out' = Append(out, WarningLine(line_key(next_line), line_num + 1))
    /\ line_num' = Len(f_lines)
    /\ UNCHANGED <<file_exists, content, BUILD_FLAGS, flags_before, append_calls,
                   pc, config, new_flags, item, key, value, flag>>

\* line 44-46: invalid key
ParseWarn ==
    /\ InLoop
    /\ ~(next_line = <<>> \/ startswith(next_line, <<"#">>))
    /\ "=" \in Range(next_line)
    /\ line_key(next_line) # <<>>
    /\ ~KEY_PATTERN(line_key(next_line))
    /\ out' = Append(out, WarningLine(line_key(next_line), line_num + 1))
    /\ line_num' = line_num + 1
    /\ UNCHANGED <<file_exists, content, BUILD_FLAGS, flags_before, append_calls,
                   pc, config, new_flags, item, key, value, flag>>

\* line 47: config[key] = value
ParseStore ==
    /\ InLoop
    /\ ~(next_line = <<>> \/ startswith(next_line, <<"#">>))
    /\ "=" \in Range(next_line)
    /\ line_key(next_line) # <<>>
    /\ KEY_PATTERN(line_key(next_line))
    /\ config' = dict_set(config, line_key(next_line), line_value(next_line))
    /\ line_num' = line_num + 1
    /\ UNCHANGED <<file_exists, content, BUILD_FLAGS, flags_before, append_calls,
                   pc, out, new_flags, item, key, value, flag>>

\* line 48: the file is exhausted, parse_env_file returns
ParseReturn ==
    /\ pc = "parse" /\ file_exists /\ line_num = Len(f_lines)
    /\ pc' = "loaded"
    /\ UNCHANGED <<file_exists, content, BUILD_FLAGS, flags_before, append_calls,
                   line_num, config, out, new_flags, item, key, value, flag>>

----------------------------------------------------------------------------
(* module level: report and publish *)

SENSITIVE == {<<"P","A","S","S","W","O","R","D">>, <<"T","O","K","E","N">>,
              <<"S","E","C","R","E","T">>, <<"W","E","B","H","O","O","K">>}

\* mutant: the key is not upper-cased before the search
is_sensitive_exact(k) == \E s \in SENSITIVE : contains(k, s)

is_sensitive(k) == \E s \in SENSITIVE : contains(upper(k), s)

\* mutant: the branch tests the existence of the file instead of the entries
LoadHeader_if_exists ==
    /\ pc = "loaded" /\ file_exists
    /\ out' = Append(out, HeaderLine)
    /\ new_flags' = <<>>
    /\ pc' = "render"
    /\ UNCHANGED <<file_exists, content, BUILD_FLAGS, flags_before, append_calls,
                   line_num, config, item, key, value, flag>>

\* line 94-98
LoadHeader ==
    /\ pc = "loaded" /\ config # <<>>
    /\ out' = Append(out, HeaderLine)
    /\ new_flags' = <<>>
    /\ pc' = "render"
    /\ UNCHANGED <<file_exists, content, BUILD_FLAGS, flags_before, append_calls,
                   line_num, config, item, key, value, flag>>

\* line 99-109: one iteration over config.items()
RenderEntry ==
    /\ pc = "render" /\ item < Len(config)
    /\ LET k == config[item + 1][1]
           v == config[item + 1][2]
       IN  /\ key' = k
           /\ value' = v
           /\ flag' = get_build_flag(k, v)
           /\ new_flags' = Append(new_flags, get_build_flag(k, v))
           /\ out' = Append(out, IF is_sensitive(k) THEN MaskedLine(k) ELSE ValueLine(k, v))
    /\ item' = item + 1
    /\ UNCHANGED <<file_exists, content, BUILD_FLAGS, flags_before, append_calls,
                   pc, line_num, config>>

\* mutant: env.Replace instead of env.Append
Publish_replace ==
    /\ pc = "render" /\ item = Len(config)
    /\ BUILD_FLAGS' = new_flags
    /\ append_calls' = append_calls + 1
    /\ pc' = "done"
    /\ UNCHANGED <<file_exists, content, flags_before, line_num, config, out,
                   new_flags, item, key, value, flag>>

\* line 112: env.Append(BUILD_FLAGS=new_flags)
Publish ==
    /\ pc = "render" /\ item = Len(config)
    /\ BUILD_FLAGS' = BUILD_FLAGS \o new_flags
    /\ append_calls' = append_calls + 1
    /\ pc' = "done"
    /\ UNCHANGED <<file_exists, content, flags_before, line_num, config, out,
                   new_flags, item, key, value, flag>>

\* mutant: the flag collection is overwritten with the (empty) new list
NoConfig_clears ==
    /\ pc = "loaded" /\ config = <<>>
    /\ out' = Append(out, NoFileLine)
    /\ BUILD_FLAGS' = new_flags
    /\ pc' = "done"
    /\ UNCHANGED <<file_exists, content, flags_before, append_calls,
                   line_num, config, new_flags, item, key, value, flag>>

\* line 113-116
NoConfig ==
    /\ pc = "loaded" /\ config = <<>>
    /\ out' = Append(out, NoFileLine)
    /\ pc' = "done"
    /\ UNCHANGED <<file_exists, content, BUILD_FLAGS, flags_before, append_calls,
                   line_num, config, new_flags, item, key, value, flag>>

----------------------------------------------------------------------------
(* Inputs *)

SeqsUpTo(S, n) == UNION {[1..k -> S] : k \in 0..n}

FileChars == {" ", "#", "=", "A", "\n"}

SampleFiles == {
    \* ok=1 / 1BAD=x / GOOD_KEY=2
    <<"o","k","=","1","\n","1","B","A","D","=","x","\n",
      "G","O","O","D","_","K","E","Y","=","2","\n">>,
    \* A=1 / B=2 / A=2
    <<"A","=","1","\n","B","=","2","\n","A","=","2","\n">>,
    \* Api_Token=abc / ssid = Test Network
    <<"A","p","i","_","T","o","k","e","n","=","a","b","c","\n",
      "s","s","i","d"," ","="," ","T","e","s","t"," ","N","e","t","w","o","r","k">>,
    \* my_secret=a"b / on=TRUE
    <<"m","y","_","s","e","c","r","e","t","=","a","\"","b","\n","o","n","=","T","R","U","E","\n">>,
    \* WEBHOOK=h?a=b#c / PASSWORD=p w / TOKE=-7
    <<"W","E","B","H","O","O","K","=","h","?","a","=","b","#","c","\n",
      "P","A","S","S","W","O","R","D","=","p"," ","w","\n","T","O","K","E","=","-","7">>,
    \* dir=C:\new / f=1_0.5 / n=08
    <<"d","i","r","=","C",":","\\","n","e","w","\n","f","=","1","_","0",".","5","\n","n","=","0","8">>,
    \* q=it's / r=3.14 / s=1e10
    <<"q","=","i","t","'","s","\n","r","=","3",".","1","4","\n","s","=","1","e","1","0">> }

Files == SeqsUpTo(FileChars, MaxFileLen) \cup SampleFiles

PreFlags == {<<>>, << <<"-","O","2">> >>}

Init ==
    /\ file_exists \in BOOLEAN
    /\ content \in (IF file_exists THEN Files ELSE {<<>>})
    /\ BUILD_FLAGS \in PreFlags
    /\ flags_before = BUILD_FLAGS
    /\ append_calls = 0
    /\ pc = "parse"
    /\ line_num = 0
    /\ config = <<>>
    /\ out = <<>>
    /\ new_flags = <<>>
    /\ item = 0
    /\ key = <<>>
    /\ value = <<>>
    /\ flag = <<>>

Next ==
    \/ ParseMissing
    \/ ParseSkip
    \/ ParseIgnore
    \/ ParseWarn
    \/ ParseStore
    \/ ParseReturn
    \/ LoadHeader
    \/ RenderEntry
    \/ Publish
    \/ NoConfig

Spec == Init /\ [][Next]_vars

----------------------------------------------------------------------------
(* get_build_flag on its own: every key and value of the bounded sets *)

ValueChars == {"0", "1", "-", "+", ".", "e", "E", "_", "\\", "\"", "'", " ", "a", "n"}

SampleValues == {
    <<"t","r","u","e">>, <<"T","R","U","E">>, <<"T","r","u","e">>,
    <<"f","a","l","s","e">>, <<"F","A","L","S","E">>, <<"f","a","l","s","E">>,
    <<"t","r","u","e","e">>, <<"y","e","s">>, <<"+","5">>,
    <<"4","2">>, <<"-","7">>, <<"3",".","1","4">>, <<"1","e","1","0">>,
    <<"i","n","f">>, <<"n","a","n">>, <<"I","n","f","i","n","i","t","y">>,
    <<"1","_","0",".","5">>, <<"-","1",".","5","E","-","3">>,
    <<"T","e","s","t"," ","N","e","t","w","o","r","k">>,
    <<"a","\\","\"","'"," ","b">> }

FlagValues == SeqsUpTo(ValueChars, MaxValueLen) \cup SampleValues

FlagKeys == {<<"A">>, <<"W","I","F","I","_","S","S","I","D">>}

InitFlag ==
    /\ file_exists = FALSE
    /\ content = <<>>
    /\ BUILD_FLAGS = <<>>
    /\ flags_before = <<>>
    /\ append_calls = 0
    /\ pc = "call"
    /\ line_num = 0
    /\ config = <<>>
    /\ out = <<>>
    /\ new_flags = <<>>
    /\ item = 0
    /\ key \in FlagKeys
    /\ value \in FlagValues
    /\ flag = <<>>

CallGetBuildFlag ==
    /\ pc = "call"
    /\ flag' = get_build_flag(key, value)
    /\ pc' = "returned"
    /\ UNCHANGED <<file_exists, content, BUILD_FLAGS, flags_before, append_calls,
                   line_num, config, out, new_flags, item, key, value>>

NextFlag == CallGetBuildFlag

SpecFlag == InitFlag /\ [][NextFlag]_vars

----------------------------------------------------------------------------
(* Reading a .env line as the grammar describes it, by positions in the     *)
(* raw line, independently of the order of operations in parse_env_file.    *)

NonBlank(l) == {i \in 1..Len(l) : l[i] \notin Whitespace}

Least(S) == CHOOSE i \in S : \A j \in S : i <= j

Greatest(S) == CHOOSE i \in S : \A j \in S : i >= j

IsBlankLine(l) == NonBlank(l) = {}

IsCommentLine(l) == ~IsBlankLine(l) /\ l[Least(NonBlank(l))] = "#"

EqualsAt(l) == {i \in 1..Len(l) : l[i] = "="}

KeyText(l) == strip(SubSeq(l, 1, Least(EqualsAt(l)) - 1))

ValueText(l) == strip(SubSeq(l, Least(EqualsAt(l)) + 1, Len(l)))

IsAssignment(l) ==
    /\ ~IsBlankLine(l) /\ ~IsCommentLine(l)
    /\ EqualsAt(l) # {}
    /\ KeyText(l) # <<>>

IdentifierStart == Range(UpperLetters) \cup Range(LowerLetters) \cup {"_"}

IsIdentifier(k) ==
    /\ Len(k) >= 1
    /\ k[1] \in IdentifierStart
    /\ \A i \in 1..Len(k) : k[i] \in IdentifierStart \cup Digits

\* line numbers (1-based) of the lines with a valid key, and with an invalid key
GoodLines == {i \in 1..Len(f_lines) : IsAssignment(f_lines[i]) /\ IsIdentifier(KeyText(f_lines[i]))}

BadLines == {i \in 1..Len(f_lines) : IsAssignment(f_lines[i]) /\ ~IsIdentifier(KeyText(f_lines[i]))}

AcceptedKeys == {KeyText(f_lines[i]) : i \in GoodLines}

LinesOf(k) == {i \in GoodLines : KeyText(f_lines[i]) = k}

ConfigKeys == {config[i][1] : i \in 1..Len(config)}

Parsed == pc \in {"loaded", "render", "done"}

----------------------------------------------------------------------------
(* C1: get_build_flag returns -D<KEY>_VALUE=<rendered>, where <rendered> is *)
(* chosen by first match: a case-insensitive true/false is lowercased; a    *)
(* run of digits, or one '-' and at least one digit, is kept; a text that   *)
(* float() accepts and that has '.', 'e' or 'E' is kept; anything else,     *)
(* the empty value, a lone '-' and '+5' included, takes the string branch.  *)

C1_SameIgnoringCase(v, w) ==
    /\ Len(v) = Len(w)
    /\ \A i \in 1..Len(w) : v[i] \in {w[i], upper_char(w[i])}

C1_Boolean(v) == C1_SameIgnoringCase(v, TrueText) \/ C1_SameIgnoringCase(v, FalseText)

C1_DigitRun(v) == v # <<>> /\ Range(v) \subseteq Digits

C1_Integer(v) == C1_DigitRun(v) \/ (v # <<>> /\ v[1] = "-" /\ C1_DigitRun(Tail(v)))

C1_Float(v) == float_parses(v) /\ Range(v) \cap {".", "e", "E"} # {}

C1_StringForm(v) == <<"\\", "\"">> \o escape(v) \o <<"\\", "\"">>

C1_Rendered(v) ==
    IF C1_Boolean(v) THEN lower(v)
    ELSE IF C1_Integer(v) THEN v
    ELSE IF C1_Float(v) THEN v
    ELSE C1_StringForm(v)

C1_Flag(k, v) == <<"-", "D">> \o k \o <<"_", "V", "A", "L", "U", "E", "=">> \o C1_Rendered(v)

C1_Classification ==
    pc = "returned" =>
        /\ flag = C1_Flag(key, value)
        /\ value \in {<<>>, <<"-">>, <<"+", "5">>} =>
               flag = define(key) \o C1_StringForm(value)

C1_Witness ==
    /\ pc = "returned"
    /\ value = <<"+", "5">>
    /\ flag = define(key) \o <<"\\", "\"", "+", "5", "\\", "\"">>

----------------------------------------------------------------------------
(* C8: in the string branch the four replacements in sequence equal the     *)
(* independent replacement of each character (\ -> \\, " -> \\\", ' -> \',  *)
(* space -> \ space, any other character unchanged), and the result is      *)
(* wrapped between \" and \".                                               *)

C8_Char(c) ==
    CASE c = "\\" -> <<"\\", "\\">>
      [] c = "\"" -> <<"\\", "\\", "\\", "\"">>
      [] c = "'"  -> <<"\\", "'">>
      [] c = " "  -> <<"\\", " ">>
      [] OTHER    -> <<c>>

RECURSIVE C8_EachChar(_)
C8_EachChar(v) == IF v = <<>> THEN <<>> ELSE C8_Char(Head(v)) \o C8_EachChar(Tail(v))

C8_StringBranch(v) == ~is_bool(v) /\ ~is_int(v) /\ ~is_float(v)

C8_EscapePerCharacter ==
    (pc = "returned" /\ C8_StringBranch(value)) =>
        flag = define(key) \o <<"\\", "\"">> \o C8_EachChar(value) \o <<"\\", "\"">>

C8_Witness ==
    /\ pc = "returned"
    /\ value = <<"a", "\\", "\"", "'", " ", "b">>
    /\ flag = define(key) \o <<"\\", "\"", "a", "\\", "\\", "\\", "\\", "\\", "\"",
                               "\\", "'", "\\", " ", "b", "\\", "\"">>

----------------------------------------------------------------------------
(* C2: round trip. A rendered flag, unescaped as the shell unescapes it and *)
(* read as a C literal, gives back the value of the .env line, for each of  *)
(* the four kinds of literal.                                               *)

\* outside quotes the shell drops a backslash and keeps the character after it
RECURSIVE C2_ShellUnescape(_)
C2_ShellUnescape(s) ==
    IF s = <<>> THEN <<>>
    ELSE IF Head(s) = "\\" /\ Len(s) >= 2
         THEN <<s[2]>> \o C2_ShellUnescape(SubSeq(s, 3, Len(s)))
         ELSE <<Head(s)>> \o C2_ShellUnescape(Tail(s))

C2_Literal(k, f) ==
    LET u == C2_ShellUnescape(f)
    IN  SubSeq(u, Len(define(k)) + 1, Len(u))

\* the simple escape sequences of C and the character each denotes
C2_SimpleEscapes == {"\\", "\"", "'", "?", "n", "t", "r", "f", "a", "b", "v", "0"}

C2_Escaped(c) ==
    CASE c = "n" -> "\n"
      [] c = "t" -> "\t"
      [] c = "r" -> "\r"
      [] c = "f" -> "\f"
      [] c = "a" -> "<BEL>"
      [] c = "b" -> "<BS>"
      [] c = "v" -> "<VT>"
      [] c = "0" -> "<NUL>"
      [] OTHER   -> c

\* the characters between the quotes of a C string literal: [ok, text]
RECURSIVE C2_CStringBody(_)
C2_CStringBody(b) ==
    IF b = <<>> THEN [ok |-> TRUE, text |-> <<>>]
    ELSE IF Head(b) = "\""
         THEN [ok |-> FALSE, text |-> <<>>]
    ELSE IF Head(b) = "\\"
         THEN IF Len(b) >= 2 /\ b[2] \in C2_SimpleEscapes
              THEN LET r == C2_CStringBody(SubSeq(b, 3, Len(b)))
                   IN  [ok |-> r.ok, text |-> <<C2_Escaped(b[2])>> \o r.text]
              ELSE [ok |-> FALSE, text |-> <<>>]
    ELSE LET r == C2_CStringBody(Tail(b))
         IN  [ok |-> r.ok, text |-> <<Head(b)>> \o r.text]

C2_CStringReads(lit, v) ==
    /\ Len(lit) >= 2
    /\ lit[1] = "\"" /\ lit[Len(lit)] = "\""
    /\ LET r == C2_CStringBody(SubSeq(lit, 2, Len(lit) - 1))
       IN  r.ok /\ r.text = v

C2_DigitValue(c) == IndexIn(DigitChars, c) - 1

RECURSIVE C2_Number(_, _)
C2_Number(ds, base) ==
    IF ds = <<>> THEN 0
    ELSE C2_Number(SubSeq(ds, 1, Len(ds) - 1), base) * base + C2_DigitValue(ds[Len(ds)])

\* a C integer constant with a leading 0 is octal
C2_CIntReads(lit, v) ==
    LET ds == unsigned(lit)
        octal == Len(ds) > 1 /\ ds[1] = "0"
    IN  /\ isdigit(ds)
        /\ octal => \A i \in 1..Len(ds) : C2_DigitValue(ds[i]) < 8
        /\ C2_Number(ds, IF octal THEN 8 ELSE 10) = C2_Number(unsigned(v), 10)
        /\ startswith(lit, <<"-">>) <=> startswith(v, <<"-">>)

\* a C floating constant has no digit separators
C2_CFloatReads(lit, v) == float_parses(lit) /\ "_" \notin Range(lit) /\ lit = v

C2_ReadsBack(v, lit) ==
    IF is_bool(v) THEN lit = lower(v)
    ELSE IF is_int(v) THEN C2_CIntReads(lit, v)
    ELSE IF is_float(v) THEN C2_CFloatReads(lit, v)
    ELSE C2_CStringReads(lit, v)

Rendered == pc \in {"render", "done"} /\ item > 0

C2_RoundTrip == Rendered => C2_ReadsBack(value, C2_Literal(key, flag))

----------------------------------------------------------------------------
(* C3: the report prints a key that contains PASSWORD, TOKEN, SECRET or     *)
(* WEBHOOK (in any case) with '****' and without the value, while the flag  *)
(* published for the key carries the real rendered value; every other       *)
(* accepted entry is printed with its raw value.                            *)

C3_Words == {<<"P","A","S","S","W","O","R","D">>, <<"T","O","K","E","N">>,
             <<"S","E","C","R","E","T">>, <<"W","E","B","H","O","O","K">>}

C3_OccursAt(k, w, p) ==
    /\ p + Len(w) - 1 <= Len(k)
    /\ \A j \in 1..Len(w) : k[p + j - 1] \in {w[j], lower_char(w[j])}

C3_Sensitive(k) == \E w \in C3_Words : \E p \in 1..Len(k) : C3_OccursAt(k, w, p)

\* the line printed for the i-th entry: the report lines are the last ones printed
C3_ReportLine(i) == out[Len(out) - item + i]

C3_Masking ==
    pc \in {"render", "done"} =>
        \A i \in 1..item :
            LET k == config[i][1]
                v == config[i][2]
            IN  /\ C3_Sensitive(k) =>
                       /\ C3_ReportLine(i).fmt = "  {key}: ****"
                       /\ C3_ReportLine(i).args = <<k>>
                /\ ~C3_Sensitive(k) =>
                       /\ C3_ReportLine(i).fmt = "  {key}: {value}"
                       /\ C3_ReportLine(i).args = <<k, v>>
                /\ new_flags[i] = get_build_flag(k, v)
                /\ pc = "done" => BUILD_FLAGS[Len(flags_before) + i] = get_build_flag(k, v)

C3_Witness ==
    /\ pc = "done"
    /\ \E i, j \in 1..Len(config) :
          /\ C3_Sensitive(config[i][1])
          /\ config[i][1] # upper(config[i][1])
          /\ config[i][2] # <<>>
          /\ ~C3_Sensitive(config[j][1])

----------------------------------------------------------------------------
(* C4: a line with a non-empty key that is not an identifier adds no entry, *)
(* prints one warning with the key and the 1-based line number, and does    *)
(* not stop parsing: every valid line before or after it is in the result.  *)
(* Every key of the result is an identifier.                                *)

C4_Rank(i) == Cardinality({j \in BadLines : j <= i})

C4_InvalidKeySkipped ==
    (Parsed /\ file_exists) =>
        /\ ConfigKeys = AcceptedKeys
        /\ \A k \in ConfigKeys : IsIdentifier(k)
        /\ \A i \in GoodLines : \E n \in 1..Len(config) :
               /\ config[n][1] = KeyText(f_lines[i])
               /\ config[n][2] = ValueText(f_lines[Greatest(LinesOf(KeyText(f_lines[i])))])
        /\ Len(SelectSeq(out, LAMBDA o : o.fmt = WarningLine(<<>>, 0).fmt)) = Cardinality(BadLines)
        /\ \A i \in BadLines :
               /\ out[C4_Rank(i)].fmt = "  Warning: Skipping invalid key '{key}' on line {line_num}"
               /\ out[C4_Rank(i)].args = <<KeyText(f_lines[i]), decimal(i)>>

C4_Witness ==
    /\ pc = "loaded"
    /\ \E b \in BadLines : \E g, h \in GoodLines :
          /\ g < b /\ b < h
          /\ KeyText(f_lines[b])[1] \in Digits
          /\ Len(config) = 2

----------------------------------------------------------------------------
(* C5: the published flags hold exactly one flag per distinct accepted key, *)
(* with the value of the key's last occurrence, at the position of the      *)
(* key's first occurrence.                                                  *)

C5_Position(k) == Cardinality({h \in AcceptedKeys : Least(LinesOf(h)) <= Least(LinesOf(k))})

C5_Published == SubSeq(BUILD_FLAGS, Len(flags_before) + 1, Len(BUILD_FLAGS))

C5_OneFlagPerKey ==
    (pc = "done" /\ file_exists) =>
        /\ Len(C5_Published) = Cardinality(AcceptedKeys)
        /\ \A k \in AcceptedKeys :
               C5_Published[C5_Position(k)] =
                   get_build_flag(k, ValueText(f_lines[Greatest(LinesOf(k))]))

C5_Witness ==
    /\ pc = "done"
    /\ \E k, h \in AcceptedKeys :
          /\ Least(LinesOf(k)) < Least(LinesOf(h))
          /\ Least(LinesOf(h)) < Greatest(LinesOf(k))
          /\ ValueText(f_lines[Least(LinesOf(k))]) # ValueText(f_lines[Greatest(LinesOf(k))])
          /\ Len(C5_Published) = 2

----------------------------------------------------------------------------
(* C6: when the file does not exist the run ends without an exception,      *)
(* with zero flags, the build flags unchanged, and one message that names   *)
(* the file path.                                                           *)

C6_AbsentFile ==
    ~file_exists =>
        /\ pc \in {"parse", "loaded", "done"}
        /\ pc # "done" => ENABLED Next
        /\ config = <<>> /\ new_flags = <<>>
        /\ BUILD_FLAGS = flags_before /\ append_calls = 0
        /\ out = IF pc = "done" THEN <<NoFileLine>> ELSE <<>>
        /\ NoFileLine.args = <<env_file>>

C6_Witness ==
    /\ ~file_exists /\ pc = "done"
    /\ flags_before # <<>>
    /\ BUILD_FLAGS = flags_before
    /\ Len(out) = 1

----------------------------------------------------------------------------
(* C7: publish is additive. After a run the build flags are the flags from  *)
(* before the run followed by the rendered flags in the order of the        *)
(* entries; nothing that was there is removed, changed or moved, and the    *)
(* flags are added by a single append.                                      *)

C7_RenderedFlags == [i \in 1..Len(config) |-> get_build_flag(config[i][1], config[i][2])]

C7_AdditivePublish ==
    /\ SubSeq(BUILD_FLAGS, 1, Len(flags_before)) = flags_before
    /\ pc # "done" => BUILD_FLAGS = flags_before /\ append_calls = 0
    /\ pc = "done" =>
           /\ BUILD_FLAGS = flags_before \o C7_RenderedFlags
           /\ append_calls <= 1
           /\ C7_RenderedFlags # <<>> => append_calls = 1

C7_Witness ==
    /\ pc = "done"
    /\ flags_before # <<>>
    /\ Len(config) >= 2
    /\ Len(BUILD_FLAGS) = Len(flags_before) + Len(config)

----------------------------------------------------------------------------
(* C9: every line is handled by exactly one rule. A blank line or a comment *)
(* adds nothing; a line without '=' adds nothing and prints nothing; a line *)
(* with an empty key adds nothing and prints nothing; any other line is     *)
(* split at its first '=' into the trimmed key and the trimmed remainder,   *)
(* which may itself contain '=' or '#'.                                     *)

C9_Silent == config' = config /\ out' = out

C9_Rule(l) ==
    IF IsBlankLine(l) \/ IsCommentLine(l) THEN C9_Silent
    ELSE IF EqualsAt(l) = {} THEN C9_Silent
    ELSE IF KeyText(l) = <<>> THEN C9_Silent
    ELSE IF IsIdentifier(KeyText(l))
         THEN /\ \E n \in 1..Len(config') : config'[n] = <<KeyText(l), ValueText(l)>>
              /\ \A n \in 1..Len(config') :
                     config'[n][1] # KeyText(l) => config'[n] \in Range(config)
              /\ out' = out
         ELSE /\ config' = config
              /\ out' = Append(out, WarningLine(KeyText(l), line_num'))

C9_LineRules == [][line_num' = line_num + 1 => C9_Rule(f_lines[line_num'])]_vars

C9_Witness ==
    /\ Parsed
    /\ \E n \in 1..Len(config) :
          /\ "=" \in Range(config[n][2])
          /\ "#" \in Range(config[n][2])

----------------------------------------------------------------------------
(* C10: the header is printed and the build flags are appended to if and    *)
(* only if parsing yields at least one entry. A file that exists but yields *)
(* no entry is treated as an absent file: no append, the build flags        *)
(* unchanged, and the 'No .env file found' message printed.                 *)

====
